---------------------------- MODULE Spec2Model ----------------------------
(* Model of the source-to-IR builder (frb_codegen/src/parser/mod.rs) and   *)
(* of the Rust wire-layer generator (frb_codegen/src/generator/rust/mod.rs).*)
(* Text (type signatures, identifiers) is a sequence of one-character      *)
(* strings, so that the pattern matcher works on characters as the regex    *)
(* does.                                                                   *)
EXTENDS Integers, Sequences, FiniteSets, TLC

VARIABLES
    pc,                             \* position in parse(..) / generate(..) / the matcher run
    src_structs,                    \* Parser.src_structs: name -> declared field types
    src_enums,                      \* Parser.src_enums: name -> declared variant field types
    src_fns,                        \* the public functions of the source file, in order
    stack,                          \* the call stack of parse_type below parse_function
    funcs,                          \* the IrFunc list built so far
    struct_pool,                    \* Parser.struct_pool
    enum_pool,                      \* Parser.enum_pool
    parsing_or_parsed_struct_names, \* Parser.parsing_or_parsed_struct_names
    parsed_enums,                   \* Parser.parsed_enums
    parse_log,                      \* names whose declaration was parsed, in order, one entry per parse
    api_file,                       \* the IrFile handed to the generator
    lines,                          \* Generator::generate's `lines`, as <<section, kind, ident>>
    wire_funcs,                     \* the wire functions emitted, in structured form
    names,                          \* ExternFuncCollector.names
    cap_cls,                        \* GenericCapture: the pattern name
    cap_s,                          \* GenericCapture::captures: the signature
    cap_out                         \* GenericCapture::captures: the result

parserVars == <<src_structs, src_enums, src_fns, stack, funcs, struct_pool, enum_pool,
                parsing_or_parsed_struct_names, parsed_enums, parse_log>>
genVars == <<api_file, lines, wire_funcs, names>>
capVars == <<cap_cls, cap_s, cap_out>>
vars == <<pc, parserVars, genVars, capVars>>

--------------------------------------------------------------------------
(* Bounds of the model.                                                    *)
MaxParams == 3      \* parameters of a function of the one-function files
MaxFuncs == 2       \* functions of a many-function file
MaxFields == 2      \* fields of a declaration of the drawn declaration tables
MaxLen == 6         \* length of a signature handed to the matcher alone

--------------------------------------------------------------------------
(* Text.                                                                   *)
Lower == {"a","b","c","d","e","f","g","h","i","j","k","l","m",
          "n","o","p","q","r","s","t","u","v","w","x","y","z"}
Upper == {"A","B","C","D","E","F","G","H","I","J","K","L","M",
          "N","O","P","Q","R","S","T","U","V","W","X","Y","Z"}
Digit == {"0","1","2","3","4","5","6","7","8","9"}

\* The character class of the capture group: [a-zA-Z0-9_<>()\[\];]
InnerClass == Lower \cup Upper \cup Digit \cup {"_", "<", ">", "(", ")", "[", "]", ";"}

None == [some |-> FALSE, val |-> <<>>]
Some(x) == [some |-> TRUE, val |-> x]

Generic(cls, x) == cls \o <<"<">> \o x \o <<">">>

S_Result == <<"R","e","s","u","l","t">>
S_StreamSink == <<"S","t","r","e","a","m","S","i","n","k">>
S_SyncReturn == <<"S","y","n","c","R","e","t","u","r","n">>
S_Vec == <<"V","e","c">>
S_Option == <<"O","p","t","i","o","n">>
S_Box == <<"B","o","x">>
S_String == <<"S","t","r","i","n","g">>
S_i32 == <<"i","3","2">>
S_u8 == <<"u","8">>
S_Config == <<"C","o","n","f","i","g">>
S_Node == <<"N","o","d","e">>
S_Item == <<"I","t","e","m">>

\* GenericCapture::captures with the regex of GenericCapture::new:
\*   ^[^<]*{cls}<([a-zA-Z0-9_<>()\[\];]+)>$
\* i is the length of the text matched by [^<]*.
CaptureAt(cls, s, i) ==
    /\ i + Len(cls) + 3 <= Len(s)
    /\ \A k \in 1..i : s[k] # "<"
    /\ \A j \in 1..Len(cls) : s[i + j] = cls[j]
    /\ s[i + Len(cls) + 1] = "<"
    /\ s[Len(s)] = ">"
    /\ \A k \in (i + Len(cls) + 2)..(Len(s) - 1) : s[k] \in InnerClass

captures(cls, s) ==
    IF \E i \in 0..Len(s) : CaptureAt(cls, s, i)
    THEN LET i == CHOOSE j \in 0..Len(s) :
                      /\ CaptureAt(cls, s, j)
                      /\ \A l \in 0..Len(s) : CaptureAt(cls, s, l) => l <= j
         IN Some(SubSeq(s, i + Len(cls) + 2, Len(s) - 1))
    ELSE None

CAPTURE_RESULT(s) == captures(S_Result, s)
CAPTURE_STREAM_SINK(s) == captures(S_StreamSink, s)

--------------------------------------------------------------------------
(* The type resolver (parser/ty.rs), result part: the IrType of a type     *)
(* signature. An IrType is the sequence of its constructor tags, outermost *)
(* first, ending in the primitive's or the declaration's name.             *)
Primitives == {S_i32, S_u8}
UnitType == <<"Primitive", "Unit">>
SyncReturnVecU8 == <<"Delegate", "SyncReturnVecU8">>

\* `s` is cls<X>: the single-argument wrapper cls around X
IsWrapped(cls, s) ==
    /\ Len(s) >= Len(cls) + 3
    /\ SubSeq(s, 1, Len(cls) + 1) = cls \o <<"<">>
    /\ s[Len(s)] = ">"
Unwrap(cls, s) == SubSeq(s, Len(cls) + 2, Len(s) - 1)

RECURSIVE parse_type(_)
parse_type(s) ==
    IF s \in Primitives THEN <<"Primitive">> \o s
    ELSE IF s = S_String THEN <<"Delegate", "String">>
    ELSE IF s = Generic(S_SyncReturn, Generic(S_Vec, S_u8)) THEN SyncReturnVecU8
    ELSE IF IsWrapped(S_Vec, s)
         THEN LET e == parse_type(Unwrap(S_Vec, s))
              IN IF e[1] = "Primitive" THEN <<"PrimitiveList">> \o Tail(e)
                 ELSE <<"GeneralList">> \o e
    ELSE IF IsWrapped(S_Option, s) THEN <<"Optional">> \o parse_type(Unwrap(S_Option, s))
    ELSE IF IsWrapped(S_Box, s) THEN <<"Boxed">> \o parse_type(Unwrap(S_Box, s))
    ELSE IF s \in DOMAIN src_enums THEN <<"EnumRef">> \o s
    ELSE IF s \in DOMAIN src_structs THEN <<"StructRef">> \o s
    ELSE <<"Unsupported">>

\* the identifier a signature comes down to once its wrappers are stripped:
\* the declaration parse_type looks up
RECURSIVE BaseName(_)
BaseName(s) ==
    IF IsWrapped(S_Vec, s) THEN BaseName(Unwrap(S_Vec, s))
    ELSE IF IsWrapped(S_Option, s) THEN BaseName(Unwrap(S_Option, s))
    ELSE IF IsWrapped(S_Box, s) THEN BaseName(Unwrap(S_Box, s))
    ELSE s

--------------------------------------------------------------------------
(* The function signature parser: Parser::parse_function.                  *)
(* A source function is [name, inputs: Seq([name, ty]), output], output    *)
(* being None for ReturnType::Default and Some(signature) otherwise.       *)
(* Documentation comments are carried through unchanged and are left out.  *)

IrField(name, ty) == [name |-> name, ty |-> ty]

\* the loop over sig.inputs: acc is [inputs, output, mode]
RECURSIVE ParseInputs(_, _)
ParseInputs(args, acc) ==
    IF args = <<>> THEN acc
    ELSE LET arg == Head(args)
             sink == CAPTURE_STREAM_SINK(arg.ty)
         IN IF sink.some
            THEN ParseInputs(Tail(args),
                     [acc EXCEPT !.output = Some(parse_type(sink.val)), !.mode = "Stream"])
            ELSE ParseInputs(Tail(args),
                     [acc EXCEPT !.inputs = Append(@, IrField(arg.name, parse_type(arg.ty)))])

ParseOutput_KeepFallible(sig_output) ==
    IF sig_output.some
    THEN LET inner == CAPTURE_RESULT(sig_output.val)
         IN IF inner.some
            THEN [output |-> parse_type(inner.val), fallible |-> TRUE]
            ELSE [output |-> parse_type(sig_output.val), fallible |-> FALSE]
    ELSE [output |-> UnitType, fallible |-> TRUE]

\* the match on sig.output, entered when no parameter set the output
ParseOutput(sig_output) ==
    IF sig_output.some
    THEN LET inner == CAPTURE_RESULT(sig_output.val)
         IN IF inner.some
            THEN [output |-> parse_type(inner.val), fallible |-> TRUE]
            ELSE [output |-> parse_type(sig_output.val), fallible |-> FALSE]
    ELSE [output |-> UnitType, fallible |-> FALSE]

ModeOfOutput_NeverSync(output) == "Normal"

\* the mode chosen from the resolved output, in the same branch
ModeOfOutput(output) == IF output = SyncReturnVecU8 THEN "Sync" ELSE "Normal"

parse_function(func) ==
    LET a == ParseInputs(func.inputs, [inputs |-> <<>>, output |-> None, mode |-> "None"])
    IN IF a.output.some
       THEN [name |-> func.name, inputs |-> a.inputs, output |-> a.output.val,
             fallible |-> TRUE, mode |-> a.mode]
       ELSE LET r == ParseOutput(func.output)
            IN [name |-> func.name, inputs |-> a.inputs, output |-> r.output,
                fallible |-> r.fallible, mode |-> ModeOfOutput(r.output)]

\* the signatures parse_function hands to parse_type, in call order
RECURSIVE InputTypeRefs(_)
InputTypeRefs(args) ==
    IF args = <<>> THEN <<>>
    ELSE LET sink == CAPTURE_STREAM_SINK(Head(args).ty)
         IN <<IF sink.some THEN sink.val ELSE Head(args).ty>> \o InputTypeRefs(Tail(args))

HasSink(func) == \E i \in 1..Len(func.inputs) : CAPTURE_STREAM_SINK(func.inputs[i].ty).some

TypeRefs(func) ==
    InputTypeRefs(func.inputs) \o
    (IF HasSink(func) \/ ~func.output.some THEN <<>>
     ELSE LET inner == CAPTURE_RESULT(func.output.val)
          IN <<IF inner.some THEN inner.val ELSE func.output.val>>)

--------------------------------------------------------------------------
(* The inputs of a run.                                                    *)
SeqsUpTo(S, n) == UNION {[1..k -> S] : k \in 0..n}
EmptyMap == [x \in {} |-> <<>>]

ParamNames == <<<<"a">>, <<"b">>, <<"c">>, <<"d">>, <<"e">>>>
FnNames == <<<<"f">>, <<"g">>, <<"h">>, <<"k">>>>
Named(tys) == [i \in 1..Len(tys) |-> [name |-> ParamNames[i], ty |-> tys[i]]]

\* the declaration table of the API files below:
\*   struct Config { name: String, retries: Option<i32> }
ConfigTable == S_Config :> Named(<<S_String, Generic(S_Option, S_i32)>>)

\* one function, any parameter list and return type over these signatures
ParamTypes == {S_i32, S_Config, Generic(S_StreamSink, S_i32), Generic(S_StreamSink, S_u8)}
ReturnTypes == {None, Some(S_i32), Some(Generic(S_Result, S_i32)),
                Some(Generic(S_Result, S_Config)),
                Some(Generic(S_SyncReturn, Generic(S_Vec, S_u8))),
                Some(Generic(S_Result, Generic(S_SyncReturn, Generic(S_Vec, S_u8))))}
OneFnFiles ==
    {<<[name |-> FnNames[1], inputs |-> Named(tys), output |-> ret]>> :
        tys \in SeqsUpTo(ParamTypes, MaxParams), ret \in ReturnTypes}

\* several functions, whose names may collide (as under #[cfg] alternatives)
FileFns ==
    {[name |-> n, inputs |-> Named(tys), output |-> ret] :
        n \in {FnNames[1], FnNames[2]},
        tys \in {<<>>, <<S_i32>>, <<S_Config>>},
        ret \in {None, Some(Generic(S_Result, S_Config))}}
ManyFnFiles == SeqsUpTo(FileFns, MaxFuncs)

\* declaration tables with direct and mutual recursion: Node is a struct,
\* Item a struct or an enum, each with fields over these signatures
FieldTypes == {Generic(S_Option, Generic(S_Box, S_Node)), S_Item}
DeclFields == {Named(tys) : tys \in SeqsUpTo(FieldTypes, MaxFields)}
RefFns == {[name |-> FnNames[1], inputs |-> Named(<<ty>>), output |-> None] :
              ty \in {S_Node, S_Item}}
RefFiles ==
    {[i \in 1..Len(fs) |-> [fs[i] EXCEPT !.name = FnNames[i]]] : fs \in SeqsUpTo(RefFns, MaxFuncs)}

NoCapture ==
    /\ cap_cls = <<>>
    /\ cap_s = <<>>
    /\ cap_out = None

InitParser ==
    /\ struct_pool = EmptyMap
    /\ enum_pool = EmptyMap
    /\ parsing_or_parsed_struct_names = {}
    /\ parsed_enums = {}

InitRest ==
    /\ pc = "parse"
    /\ InitParser
    /\ stack = <<>>
    /\ funcs = <<>>
    /\ parse_log = <<>>
    /\ api_file = [funcs |-> <<>>, struct_pool |-> EmptyMap, enum_pool |-> EmptyMap,
                   has_executor |-> FALSE]
    /\ lines = <<>>
    /\ wire_funcs = <<>>
    /\ names = <<>>
    /\ NoCapture

Init ==
    /\ \/ /\ src_structs = ConfigTable
          /\ src_enums = EmptyMap
          /\ src_fns \in OneFnFiles \cup ManyFnFiles
       \/ /\ \E nf \in DeclFields, itf \in DeclFields, item_is_enum \in BOOLEAN :
                /\ src_structs = IF item_is_enum THEN S_Node :> nf
                                 ELSE (S_Node :> nf) @@ (S_Item :> itf)
                /\ src_enums = IF item_is_enum THEN S_Item :> itf ELSE EmptyMap
          /\ src_fns \in RefFiles
    /\ InitRest

--------------------------------------------------------------------------
(* Parser::parse: parse_function on each function in order, all on the one *)
(* Parser, then the IrFile. parse_type's recursion into the fields of a    *)
(* declaration is a frame [owner, todo] of the stack; the frame of         *)
(* parse_function itself has owner <<>>.                                   *)

Frame(owner, todo) == [owner |-> owner, todo |-> todo]
FieldSigs(fields) == [i \in 1..Len(fields) |-> fields[i].ty]
IrFields(fields) == [i \in 1..Len(fields) |-> IrField(fields[i].name, parse_type(fields[i].ty))]
Top == stack[Len(stack)]
Pop == SubSeq(stack, 1, Len(stack) - 1)
ReplaceTop(fr) == [stack EXCEPT ![Len(stack)] = fr]

BeginFunction_FreshParser ==
    /\ pc = "parse"
    /\ stack = <<>>
    /\ Len(funcs) < Len(src_fns)
    /\ stack' = <<Frame(<<>>, TypeRefs(src_fns[Len(funcs) + 1]))>>
    /\ parsing_or_parsed_struct_names' = {}
    /\ parsed_enums' = {}
    /\ UNCHANGED <<pc, src_structs, src_enums, src_fns, funcs, struct_pool, enum_pool,
                   parse_log, genVars, capVars>>

\* parse(..) calls parse_function on the next function, on the same Parser
BeginFunction ==
    /\ pc = "parse"
    /\ stack = <<>>
    /\ Len(funcs) < Len(src_fns)
    /\ stack' = <<Frame(<<>>, TypeRefs(src_fns[Len(funcs) + 1]))>>
    /\ UNCHANGED <<pc, src_structs, src_enums, src_fns, funcs, struct_pool, enum_pool,
                   parsing_or_parsed_struct_names, parsed_enums, parse_log, genVars, capVars>>

\* whether parse_type has to parse the declaration `name` now
MustParse(name, seen) == name \notin seen

\* parse_type on the next signature of the running frame
ResolveRef ==
    /\ pc = "parse"
    /\ stack # <<>>
    /\ Top.todo # <<>>
    /\ LET s == Head(Top.todo)
           n == BaseName(s)
           rest == ReplaceTop([Top EXCEPT !.todo = Tail(@)])
       IN IF parse_type(s)[Len(parse_type(s))] = "Unsupported"
          THEN /\ pc' = "panic"
               /\ UNCHANGED <<stack, parsed_enums, parsing_or_parsed_struct_names, parse_log>>
          ELSE /\ pc' = pc
               /\ IF n \in DOMAIN src_enums
                  THEN IF MustParse(n, parsed_enums)
                       THEN /\ parsed_enums' = parsed_enums \cup {n}
                            /\ stack' = Append(rest, Frame(n, FieldSigs(src_enums[n])))
                            /\ parse_log' = Append(parse_log, n)
                            /\ UNCHANGED parsing_or_parsed_struct_names
                       ELSE /\ stack' = rest
                            /\ UNCHANGED <<parsed_enums, parsing_or_parsed_struct_names, parse_log>>
                  ELSE IF n \in DOMAIN src_structs
                  THEN IF MustParse(n, parsing_or_parsed_struct_names)
                       THEN /\ parsing_or_parsed_struct_names' =
                                   parsing_or_parsed_struct_names \cup {n}
                            /\ stack' = Append(rest, Frame(n, FieldSigs(src_structs[n])))
                            /\ parse_log' = Append(parse_log, n)
                            /\ UNCHANGED parsed_enums
                       ELSE /\ stack' = rest
                            /\ UNCHANGED <<parsed_enums, parsing_or_parsed_struct_names, parse_log>>
                  ELSE /\ stack' = rest
                       /\ UNCHANGED <<parsed_enums, parsing_or_parsed_struct_names, parse_log>>
    /\ UNCHANGED <<src_structs, src_enums, src_fns, funcs, struct_pool, enum_pool,
                   genVars, capVars>>

\* the fields of a declaration are all resolved: it goes into its pool
FinishDecl ==
    /\ pc = "parse"
    /\ stack # <<>>
    /\ Top.todo = <<>>
    /\ Top.owner # <<>>
    /\ stack' = Pop
    /\ IF Top.owner \in DOMAIN src_enums
       THEN /\ enum_pool' = (Top.owner :> IrFields(src_enums[Top.owner])) @@ enum_pool
            /\ UNCHANGED struct_pool
       ELSE /\ struct_pool' = (Top.owner :> IrFields(src_structs[Top.owner])) @@ struct_pool
            /\ UNCHANGED enum_pool
    /\ UNCHANGED <<pc, src_structs, src_enums, src_fns, funcs, parsing_or_parsed_struct_names,
                   parsed_enums, parse_log, genVars, capVars>>

\* parse_function returns its IrFunc
EndFunction ==
    /\ pc = "parse"
    /\ stack # <<>>
    /\ Top.todo = <<>>
    /\ Top.owner = <<>>
    /\ stack' = <<>>
    /\ funcs' = Append(funcs, parse_function(src_fns[Len(funcs) + 1]))
    /\ UNCHANGED <<pc, src_structs, src_enums, src_fns, struct_pool, enum_pool,
                   parsing_or_parsed_struct_names, parsed_enums, parse_log, genVars, capVars>>

\* the IrFile; has_executor is whether the source text holds HANDLER_NAME
BuildIrFile ==
    /\ pc = "parse"
    /\ stack = <<>>
    /\ Len(funcs) = Len(src_fns)
    /\ \E has_executor \in BOOLEAN :
          api_file' = [funcs |-> funcs, struct_pool |-> struct_pool,
                       enum_pool |-> enum_pool, has_executor |-> has_executor]
    /\ pc' = "imports"
    /\ UNCHANGED <<parserVars, lines, wire_funcs, names, capVars>>

ParseNext == BeginFunction \/ ResolveRef \/ FinishDecl \/ EndFunction \/ BuildIrFile

--------------------------------------------------------------------------
(* The IR's helpers used by the generator (crate::ir).                     *)

Range(q) == {q[i] : i \in 1..Len(q)}
RECURSIVE Flatten(_)
Flatten(qs) == IF qs = <<>> THEN <<>> ELSE Head(qs) \o Flatten(Tail(qs))

has_port_argument(mode) == mode # "Sync"
ffi_call_mode(mode) == mode
wire_func_name(func) == <<"w","i","r","e","_">> \o func.name

\* the types directly below a type: the element of a container, the fields
\* of a declaration
Children(file, ty) ==
    IF ty[1] \in {"Optional", "Boxed", "GeneralList"} THEN <<Tail(ty)>>
    ELSE IF ty[1] = "StructRef"
         THEN [i \in 1..Len(file.struct_pool[Tail(ty)]) |-> file.struct_pool[Tail(ty)][i].ty]
    ELSE IF ty[1] = "EnumRef"
         THEN [i \in 1..Len(file.enum_pool[Tail(ty)]) |-> file.enum_pool[Tail(ty)][i].ty]
    ELSE <<>>

RECURSIVE VisitTypes(_, _, _)
VisitTypes(file, todo, ans) ==
    IF todo = <<>> THEN ans
    ELSE IF Head(todo) \in Range(ans) THEN VisitTypes(file, Tail(todo), ans)
    ELSE VisitTypes(file, Children(file, Head(todo)) \o Tail(todo), Append(ans, Head(todo)))

distinct_types(file, include_func_inputs, include_func_output) ==
    VisitTypes(file,
        Flatten([i \in 1..Len(file.funcs) |->
            (IF include_func_inputs
             THEN [j \in 1..Len(file.funcs[i].inputs) |-> file.funcs[i].inputs[j].ty]
             ELSE <<>>) \o
            (IF include_func_output THEN <<file.funcs[i].output>> ELSE <<>>)]),
        <<>>)

--------------------------------------------------------------------------
(* Generator::generate_wire_func and the ExternFuncCollector.              *)

S_port == <<"p","o","r","t","_">>
S_free_WireSyncReturnStruct ==
    <<"f","r","e","e","_","W","i","r","e","S","y","n","c","R","e","t","u","r","n",
      "S","t","r","u","c","t">>
S_stream_sink == <<"task_callback.stream_sink()">>
ApiVar(name) == <<"a","p","i","_">> \o name

\* ExternFuncCollector::generate: the effect on `names`
ExternFuncCollector_generate(ns, func_name) == Append(ns, func_name)

\* one call of ExternFuncCollector::generate per function name, in order
RECURSIVE GenerateAll(_, _)
GenerateAll(ns, func_names) ==
    IF func_names = <<>> THEN ns
    ELSE GenerateAll(ExternFuncCollector_generate(ns, Head(func_names)), Tail(func_names))

\* a wire parameter is its name and the type whose wire type it has
WireParams_AlwaysPort(func) ==
    <<[name |-> S_port, ty |-> <<"i64">>]>> \o
    [i \in 1..Len(func.inputs) |-> [name |-> func.inputs[i].name, ty |-> func.inputs[i].ty]]

WireParams(func) ==
    (IF has_port_argument(func.mode) THEN <<[name |-> S_port, ty |-> <<"i64">>]>> ELSE <<>>) \o
    [i \in 1..Len(func.inputs) |-> [name |-> func.inputs[i].name, ty |-> func.inputs[i].ty]]

InnerFuncParams(func) ==
    (IF func.mode = "Stream" THEN <<S_stream_sink>> ELSE <<>>) \o
    [i \in 1..Len(func.inputs) |-> ApiVar(func.inputs[i].name)]

WrapInfoObj(func) ==
    [debug_name |-> func.name,
     port |-> IF has_port_argument(func.mode) THEN "Some(port_)" ELSE "None",
     mode |-> ffi_call_mode(func.mode)]

CodeWire2Api(func) == [i \in 1..Len(func.inputs) |-> func.inputs[i].name]

\* the wire function, part by part
generate_wire_func(func) ==
    [name |-> wire_func_name(func),
     params |-> WireParams(func),
     wrap_info |-> WrapInfoObj(func),
     wire2api |-> CodeWire2Api(func),
     callee |-> func.name,
     inner_func_params |-> InnerFuncParams(func),
     wrapped_in_ok |-> ~func.fallible,
     handler_func_name |-> IF func.mode = "Sync" THEN "wrap_sync" ELSE "wrap",
     return_type |-> IF func.mode = "Sync" THEN "support::WireSyncReturnStruct" ELSE ""]

--------------------------------------------------------------------------
(* Generator::generate, section by section. A line is                      *)
(* <<section, kind, ident>>: the header comment of a section, or one item  *)
(* of it with the type or function it is made for.                         *)

Line(section, kind, ident) == <<section, kind, ident>>
section_header_comment(section_name) == Line(section_name, "header", <<>>)
PerType(section, kind, tys) == [i \in 1..Len(tys) |-> Line(section, kind, tys[i])]
SelectEnums(tys) == SelectSeq(tys, LAMBDA ty : ty[1] = "EnumRef")

distinct_input_types == distinct_types(api_file, TRUE, FALSE)
distinct_output_types == distinct_types(api_file, FALSE, TRUE)

\* every import comes from the API module, whose declarations these are,
\* and is filtered out
generate_imports == <<>>

\* the allocation functions a type exports: the list and boxed constructors
NeedsAllocation(ty) == ty[1] \in {"PrimitiveList", "GeneralList", "Boxed"}
AllocName(ty) == <<"n","e","w","_">> \o ty
AllocNames(tys) ==
    LET need == SelectSeq(tys, NeedsAllocation)
    IN [i \in 1..Len(need) |-> AllocName(need[i])]

GenImports ==
    /\ pc = "imports"
    /\ lines' = lines \o <<Line("", "preamble", <<>>)>>
                      \o <<section_header_comment("imports")>> \o generate_imports
    /\ pc' = "wire functions"
    /\ UNCHANGED <<parserVars, api_file, wire_funcs, names, capVars>>

GenWireFuncs ==
    /\ pc = "wire functions"
    /\ lines' = lines \o <<section_header_comment("wire functions")>>
                      \o [i \in 1..Len(api_file.funcs) |->
                            Line("wire functions", "wire_func", wire_func_name(api_file.funcs[i]))]
    /\ wire_funcs' = [i \in 1..Len(api_file.funcs) |-> generate_wire_func(api_file.funcs[i])]
    /\ names' = GenerateAll(names, [i \in 1..Len(api_file.funcs) |->
                                        generate_wire_func(api_file.funcs[i]).name])
    /\ pc' = "wire structs"
    /\ UNCHANGED <<parserVars, api_file, capVars>>

GenWireStructs ==
    /\ pc = "wire structs"
    /\ lines' = lines \o <<section_header_comment("wire structs")>>
                      \o PerType("wire structs", "wire_struct", distinct_input_types)
    /\ pc' = "wire enums"
    /\ UNCHANGED <<parserVars, api_file, wire_funcs, names, capVars>>

GenWireEnums_WrongHeader ==
    /\ pc = "wire enums"
    /\ lines' = lines \o <<section_header_comment("wire structs")>>
                      \o PerType("wire enums", "wire_enum", SelectEnums(distinct_input_types))
    /\ pc' = "allocate functions"
    /\ UNCHANGED <<parserVars, api_file, wire_funcs, names, capVars>>

GenWireEnums ==
    /\ pc = "wire enums"
    /\ lines' = lines \o <<section_header_comment("wire enums")>>
                      \o PerType("wire enums", "wire_enum", SelectEnums(distinct_input_types))
    /\ pc' = "allocate functions"
    /\ UNCHANGED <<parserVars, api_file, wire_funcs, names, capVars>>

GenAllocateFuncs ==
    /\ pc = "allocate functions"
    /\ lines' = lines \o <<section_header_comment("allocate functions")>>
                      \o PerType("allocate functions", "allocate", distinct_input_types)
    /\ names' = GenerateAll(names, AllocNames(distinct_input_types))
    /\ pc' = "impl Wire2Api"
    /\ UNCHANGED <<parserVars, api_file, wire_funcs, capVars>>

GenWire2Api ==
    /\ pc = "impl Wire2Api"
    /\ lines' = lines \o <<section_header_comment("impl Wire2Api")>>
                      \o <<Line("impl Wire2Api", "misc", <<>>)>>
                      \o PerType("impl Wire2Api", "wire2api", distinct_input_types)
    /\ pc' = "impl NewWithNullPtr"
    /\ UNCHANGED <<parserVars, api_file, wire_funcs, names, capVars>>

GenNewWithNullPtr ==
    /\ pc = "impl NewWithNullPtr"
    /\ lines' = lines \o <<section_header_comment("impl NewWithNullPtr")>>
                      \o <<Line("impl NewWithNullPtr", "misc", <<>>)>>
                      \o PerType("impl NewWithNullPtr", "new_with_nullptr", distinct_input_types)
    /\ pc' = "impl IntoDart"
    /\ UNCHANGED <<parserVars, api_file, wire_funcs, names, capVars>>

GenIntoDart ==
    /\ pc = "impl IntoDart"
    /\ lines' = lines \o <<section_header_comment("impl IntoDart")>>
                      \o PerType("impl IntoDart", "into_dart", distinct_output_types)
    /\ pc' = "executor"
    /\ UNCHANGED <<parserVars, api_file, wire_funcs, names, capVars>>

generate_executor ==
    IF api_file.has_executor THEN Line("executor", "nothing", <<>>)
    ELSE Line("executor", "default_handler", <<>>)

GenExecutor ==
    /\ pc = "executor"
    /\ lines' = lines \o <<section_header_comment("executor"), generate_executor>>
    /\ pc' = "sync execution mode utility"
    /\ UNCHANGED <<parserVars, api_file, wire_funcs, names, capVars>>

GenSyncUtility ==
    /\ pc = "sync execution mode utility"
    /\ lines' = lines \o <<section_header_comment("sync execution mode utility"),
                           Line("sync execution mode utility", "extern_func",
                                S_free_WireSyncReturnStruct)>>
    /\ names' = ExternFuncCollector_generate(names, S_free_WireSyncReturnStruct)
    /\ pc' = "done"
    /\ UNCHANGED <<parserVars, api_file, wire_funcs, capVars>>

GenNext ==
    \/ GenImports \/ GenWireFuncs \/ GenWireStructs \/ GenWireEnums \/ GenAllocateFuncs
    \/ GenWire2Api \/ GenNewWithNullPtr \/ GenIntoDart \/ GenExecutor \/ GenSyncUtility

Next == ParseNext \/ GenNext

Spec == Init /\ [][Next]_vars
\* parse(..) runs to its end: its steps are taken as long as one is possible
FairSpec == Spec /\ WF_vars(ParseNext)

--------------------------------------------------------------------------
(* GenericCapture::captures on its own: any signature over a small         *)
(* alphabet, against a one- and a two-letter pattern name.                 *)

CapAlphabet == {"R", "a", "<", ">", ","}
CapPatterns == {<<"R">>, <<"R", "a">>}

CaptureInit ==
    /\ pc = "capture"
    /\ cap_cls \in CapPatterns
    /\ cap_s \in SeqsUpTo(CapAlphabet, MaxLen)
    /\ cap_out = None
    /\ src_structs = EmptyMap
    /\ src_enums = EmptyMap
    /\ src_fns = <<>>
    /\ InitParser
    /\ stack = <<>>
    /\ funcs = <<>>
    /\ parse_log = <<>>
    /\ api_file = [funcs |-> <<>>, struct_pool |-> EmptyMap, enum_pool |-> EmptyMap,
                   has_executor |-> FALSE]
    /\ lines = <<>>
    /\ wire_funcs = <<>>
    /\ names = <<>>

Capture ==
    /\ pc = "capture"
    /\ cap_out' = captures(cap_cls, cap_s)
    /\ pc' = "captured"
    /\ UNCHANGED <<parserVars, genVars, cap_cls, cap_s>>

CaptureSpec == CaptureInit /\ [][Capture]_vars

--------------------------------------------------------------------------
(* Properties of parse_function. funcs[i] is the IrFunc of src_fns[i].     *)

IsSink(ty) == CAPTURE_STREAM_SINK(ty).some
IsFallibleResult(sig_output) == sig_output.some /\ CAPTURE_RESULT(sig_output.val).some
SinkPositions(func) == {j \in 1..Len(func.inputs) : IsSink(func.inputs[j].ty)}
S_SyncReturnVecU8 == Generic(S_SyncReturn, Generic(S_Vec, S_u8))
DeclaresSyncReturn(func) ==
    /\ func.output.some
    /\ \/ func.output.val = S_SyncReturnVecU8
       \/ func.output.val = Generic(S_Result, S_SyncReturnVecU8)
NonSinkFields(func) ==
    LET keep == SelectSeq(func.inputs, LAMBDA arg : ~IsSink(arg.ty))
    IN [j \in 1..Len(keep) |-> IrField(keep[j].name, parse_type(keep[j].ty))]

\* C1: the mode of every parsed function is Stream if a parameter matches
\* the stream-sink pattern, whatever the declared return type; otherwise
\* Sync exactly when the resolved output is the synchronous-byte-buffer
\* delegate, also when unwrapped from a fallible result; otherwise Normal.
C1_ModeDecision ==
    \A i \in 1..Len(funcs) :
        /\ funcs[i].mode \in {"Normal", "Sync", "Stream"}
        /\ funcs[i].mode = "Stream" <=> SinkPositions(src_fns[i]) # {}
        /\ SinkPositions(src_fns[i]) = {} =>
              /\ funcs[i].mode = "Sync" <=> funcs[i].output = SyncReturnVecU8
              /\ funcs[i].mode = "Sync" <=> DeclaresSyncReturn(src_fns[i])
              /\ funcs[i].mode = "Normal" <=> funcs[i].output # SyncReturnVecU8

\* a function with a sink parameter and a declared synchronous return is
\* parsed as Stream
C1_Witness ==
    /\ Len(funcs) = 1
    /\ SinkPositions(src_fns[1]) # {}
    /\ src_fns[1].output = Some(S_SyncReturnVecU8)
    /\ funcs[1].mode = "Stream"

\* C2: without a stream-sink parameter, a function is fallible with the
\* inner type as output exactly when its declared return type matches the
\* fallible-result pattern; a return type that does not match is resolved
\* as it is, infallible; no return type gives the unit primitive, infallible.
C2_Fallibility ==
    \A i \in 1..Len(funcs) :
        SinkPositions(src_fns[i]) = {} =>
            LET out == src_fns[i].output
            IN /\ funcs[i].fallible <=> IsFallibleResult(out)
               /\ IsFallibleResult(out) =>
                     funcs[i].output = parse_type(Unwrap(S_Result, out.val))
               /\ (out.some /\ ~IsFallibleResult(out)) => funcs[i].output = parse_type(out.val)
               /\ ~out.some => funcs[i].output = UnitType

\* a function returning Result<Config>, and one with no return type, parsed
C2_Witness ==
    /\ Len(funcs) = 2
    /\ SinkPositions(src_fns[1]) = {} /\ SinkPositions(src_fns[2]) = {}
    /\ src_fns[1].output = Some(Generic(S_Result, S_Config))
    /\ funcs[1].fallible /\ funcs[1].output = <<"StructRef">> \o S_Config
    /\ src_fns[2].output = None
    /\ ~funcs[2].fallible /\ funcs[2].output = UnitType

\* C3: a Stream function consumed exactly one parameter, the sink: its
\* inputs are the other parameters in declared order, one fewer than the
\* source has, and its output is the sink's inner type; any other function
\* keeps all its parameters in declared order.
C3_OneSinkConsumed ==
    \A i \in 1..Len(funcs) :
        IF funcs[i].mode = "Stream"
        THEN /\ Cardinality(SinkPositions(src_fns[i])) = 1
             /\ Len(funcs[i].inputs) = Len(src_fns[i].inputs) - 1
             /\ funcs[i].inputs = NonSinkFields(src_fns[i])
             /\ \A j \in SinkPositions(src_fns[i]) :
                   funcs[i].output =
                       parse_type(Unwrap(S_StreamSink, src_fns[i].inputs[j].ty))
        ELSE /\ Len(funcs[i].inputs) = Len(src_fns[i].inputs)
             /\ funcs[i].inputs = NonSinkFields(src_fns[i])

--------------------------------------------------------------------------
(* Properties of the generated text and of the exported names.             *)

NoDuplicates(q) == \A i, j \in 1..Len(q) : q[i] = q[j] => i = j
Headers(ls) ==
    LET hs == SelectSeq(ls, LAMBDA l : l[2] = "header")
    IN [i \in 1..Len(hs) |-> hs[i][1]]
IsPrefix(p, q) == Len(p) <= Len(q) /\ SubSeq(q, 1, Len(p)) = p
CountLines(section, kind, ident) ==
    Cardinality({k \in 1..Len(lines) : lines[k] = Line(section, kind, ident)})
Generated == pc = "done"

\* C4: the exported-name list never holds a name twice, and a run in which
\* two exported functions would share a name does not return an Output.
C4_ExportedNamesUnique ==
    /\ NoDuplicates(names)
    /\ Generated => NoDuplicates([i \in 1..Len(src_fns) |-> src_fns[i].name])

\* the nine sections of the specification, by the header the code gives them
NineSections ==
    <<"imports", "wire functions", "wire structs", "wire enums", "allocate functions",
      "impl Wire2Api", "impl NewWithNullPtr", "impl IntoDart", "executor">>
TenSections == NineSections \o <<"sync execution mode utility">>

\* C5, as stated: the generated text is the nine sections, each once, in
\* order, and nothing after the dispatch/executor glue.
C5_NineSections == Generated => Headers(lines) = NineSections

\* C5, amended: the generated text is ten sections, each once and in this
\* order: the nine, then "sync execution mode utility"; every line of a
\* section stands under that section's header.
C5_TenSections ==
    /\ IsPrefix(Headers(lines), TenSections)
    /\ Generated => Headers(lines) = TenSections
    /\ \A k \in 1..Len(lines) :
          lines[k][2] # "preamble" => Headers(SubSeq(lines, 1, k)) # <<>> /\
              lines[k][1] = Headers(SubSeq(lines, 1, k))[Len(Headers(SubSeq(lines, 1, k)))]

\* a generated text with an enum and a struct among its input types
C5_Witness ==
    /\ Generated
    /\ Headers(lines) = TenSections
    /\ \E k \in 1..Len(lines) : lines[k][2] = "wire_enum"
    /\ \E k \in 1..Len(lines) : lines[k][2] = "wire_struct" /\ lines[k][3][1] = "StructRef"

\* the struct types reachable from the functions' inputs
InputStructTypes == {ty \in Range(distinct_input_types) : ty[1] = "StructRef"}
WireStructsDeclared == {lines[k][3] : k \in {l \in 1..Len(lines) : lines[l][2] = "wire_struct"}}

\* C6: the wire structs declared are the distinct struct types reachable
\* from the inputs, one declaration, one wire-to-domain conversion and one
\* null-default constructor each, and none for a type that is no struct.
C6_WireStructsAreInputStructs ==
    Generated =>
        /\ WireStructsDeclared = InputStructTypes
        /\ \A ty \in InputStructTypes :
              /\ CountLines("wire structs", "wire_struct", ty) = 1
              /\ CountLines("impl Wire2Api", "wire2api", ty) = 1
              /\ CountLines("impl NewWithNullPtr", "new_with_nullptr", ty) = 1

\* C9: the domain call is emitted bare only when the declared return type
\* of the source function matches the fallible-result pattern, and wrapped
\* in Ok(..) otherwise, in every mode.
C9_UniformResult ==
    \A i \in 1..Len(wire_funcs) :
        wire_funcs[i].wrapped_in_ok <=> ~IsFallibleResult(src_fns[i].output)

PortParam == [name |-> S_port, ty |-> <<"i64">>]
DeclaresPort(w) == w.params # <<>> /\ Head(w.params) = PortParam

\* C10: the wire function declares port_: i64 first exactly in Normal and
\* Stream mode, then one parameter per input field in declared order, and
\* its WrapInfo carries Some(port_) exactly when port_ is declared.
C10_PortAndParams ==
    \A i \in 1..Len(wire_funcs) :
        LET w == wire_funcs[i]
            f == api_file.funcs[i]
            rest == IF DeclaresPort(w) THEN Tail(w.params) ELSE w.params
        IN /\ DeclaresPort(w) <=> f.mode \in {"Normal", "Stream"}
           /\ f.mode = "Sync" => ~DeclaresPort(w)
           /\ Len(rest) = Len(f.inputs)
           /\ \A j \in 1..Len(rest) :
                 rest[j].name = f.inputs[j].name /\ rest[j].ty = f.inputs[j].ty
           /\ \A j \in 1..Len(rest) : rest[j] # PortParam
           /\ w.wrap_info.port = (IF DeclaresPort(w) THEN "Some(port_)" ELSE "None")

\* the wire function of a Sync function with an input
C10_Witness ==
    /\ Len(wire_funcs) = 1
    /\ Len(api_file.funcs[1].inputs) >= 1
    /\ api_file.funcs[1].mode = "Sync"
    /\ wire_funcs[1].wrap_info.port = "None"
    /\ Len(wire_funcs[1].params) = Len(api_file.funcs[1].inputs)

--------------------------------------------------------------------------
(* Properties of the type resolver's memoization, and of the matcher.      *)

Declared == DOMAIN src_structs \cup DOMAIN src_enums
DeclFieldsOf(n) == IF n \in DOMAIN src_enums THEN src_enums[n] ELSE src_structs[n]
NamesIn(sigs) == {BaseName(sigs[i]) : i \in 1..Len(sigs)} \cap Declared

\* the declared names referenced from the functions, directly or through
\* the fields of a referenced declaration
RECURSIVE ReferencedFrom(_)
ReferencedFrom(found) ==
    LET more == found \cup UNION {NamesIn(FieldSigs(DeclFieldsOf(n))) : n \in found}
    IN IF more = found THEN found ELSE ReferencedFrom(more)
Referenced ==
    ReferencedFrom(UNION {NamesIn(TypeRefs(src_fns[i])) : i \in 1..Len(src_fns)})

ParsingDone == pc # "parse"
C7_Memoized ==
    /\ \A k \in 1..Len(stack) : stack[k].owner # <<>> =>
          /\ stack[k].owner \in parsing_or_parsed_struct_names \cup parsed_enums
          /\ stack[k].owner \notin DOMAIN struct_pool \cup DOMAIN enum_pool
    /\ NoDuplicates(parse_log)
    /\ ParsingDone =>
          /\ DOMAIN api_file.struct_pool = Referenced \cap DOMAIN src_structs
          /\ DOMAIN api_file.enum_pool = Referenced \cap DOMAIN src_enums
          /\ Range(parse_log) = Referenced

\* C7: parsing ends for every declaration table, recursive ones included;
\* a name is marked before its fields are resolved, the fields of a
\* declaration are resolved at most once in the run, and at the end the
\* pools hold exactly the referenced names, one entry each.
C7_TerminatesMemoized == <>ParsingDone /\ []C7_Memoized

\* parsing is over for two functions that both take Node, a struct that
\* refers to itself and to Item, which refers back to Node
C7_Witness ==
    /\ ParsingDone
    /\ Len(src_fns) = 2
    /\ \A i \in 1..2 : TypeRefs(src_fns[i]) = <<S_Node>>
    /\ Declared = {S_Node, S_Item}
    /\ S_Node \in NamesIn(FieldSigs(src_structs[S_Node]))
    /\ S_Item \in NamesIn(FieldSigs(src_structs[S_Node]))
    /\ S_Node \in NamesIn(FieldSigs(DeclFieldsOf(S_Item)))
    /\ Range(parse_log) = {S_Node, S_Item}

\* depth of angle brackets after each prefix of x
RECURSIVE Depth(_)
Depth(x) ==
    IF x = <<>> THEN 0
    ELSE Depth(SubSeq(x, 1, Len(x) - 1))
         + (IF x[Len(x)] = "<" THEN 1 ELSE IF x[Len(x)] = ">" THEN -1 ELSE 0)
Balanced(x) == Depth(x) = 0 /\ \A k \in 1..Len(x) : Depth(SubSeq(x, 1, k)) >= 0
HasShape(cls, s, x) ==
    \E pre \in {SubSeq(s, 1, k) : k \in 0..Len(s)} :
        /\ "<" \notin Range(pre)
        /\ s = pre \o Generic(cls, x)

\* C8: captures gives Some(X) only for a signature of the shape
\* prefix-without-'<' P<X>, X not empty and with no unmatched angle
\* bracket, and then X is the text between the outer pair of brackets.
C8_CapturesBalanced ==
    (pc = "captured" /\ cap_out.some) =>
        /\ cap_out.val # <<>>
        /\ HasShape(cap_cls, cap_s, cap_out.val)
        /\ Balanced(cap_out.val)

--------------------------------------------------------------------------
(* Properties of the generated call of the domain function.                *)

\* the arguments the source signature asks for, parameter by parameter
ExpectedCallArgs(func) ==
    [j \in 1..Len(func.inputs) |->
        IF IsSink(func.inputs[j].ty) THEN S_stream_sink ELSE ApiVar(func.inputs[j].name)]

\* C11: the generated call of the domain function has one argument per
\* parameter of the source signature, in declared order: api_p for a
\* parameter p that is no sink, task_callback.stream_sink() at the position
\* where a sink is declared.
C11_CallArgsInDeclaredOrder ==
    \A i \in 1..Len(wire_funcs) :
        /\ wire_funcs[i].callee = src_fns[i].name
        /\ Len(wire_funcs[i].inner_func_params) = Len(src_fns[i].inputs)
        /\ wire_funcs[i].inner_func_params = ExpectedCallArgs(src_fns[i])

==========================================================================
